---- MODULE Spec2Model ----
(***************************************************************************)
(* Model of the MFEM example driver examples/ginkgo/ex1lor.cpp and of the  *)
(* time-dependent operators of miniapps/plasma/transport_solver.cpp.       *)
(*                                                                         *)
(* Each program object is one variable holding a record of its fields:     *)
(*   main : the locals of ex1lor's main(), its position and its effects    *)
(*   tdo  : a DGAdvectionDiffusionTDO                                      *)
(*   tr   : a DGTransportTDO with its CombinedOp and five NLOperators      *)
(*   df   : a DiffusionTDO                                                 *)
(*   adv  : an AdvectionTDO                                                *)
(*   phys : a call of StateIsPhysical                                      *)
(* Every object has its own specification (SpecDriver, SpecRefine, SpecAD, *)
(* SpecTransport, SpecDiffusion, SpecAdvection, SpecPhysical) in which the *)
(* other objects stay idle.                                                *)
(***************************************************************************)
EXTENDS Integers, Sequences, FiniteSets, TLC

VARIABLES main, tdo, tr, df, adv, phys

vars == <<main, tdo, tr, df, adv, phys>>

(***************************************************************************)
(* ------------------------------ ex1lor.cpp ----------------------------- *)
(***************************************************************************)

\* The strings tried for -pc-type: the four the driver knows and strings
\* that differ from them in case, by a prefix, or entirely.
PCTypeStrings == {"gko:bj", "gko:ilu", "mfem:gs", "none", "NONE", "gko"}

DeviceStrings == {"cpu", "cuda"}

\* Values of -o: isoparametric (-1), the degenerate 0, and positive orders.
OrderValues == {-1, 0, 2}

\* Values of the Block-Jacobi options -pc-so, -pc-acc and -pc-mbs: the
\* defaults of lines 113-115 and one other value each.
StorageOptStrings == {"auto", "none"}

AccValues == {"1e-1", "1e-2"}

MaxBlockSizes == {32, 16}

\* The objects main allocates with new, or borrows.
HeapNames == {"mesh", "fec", "fespace", "mesh_lor", "fec_lor", "fespace_lor",
              "b", "a", "a_pc"}

\* What the command line parser leaves in main's variables.
DriverArgs == [good : BOOLEAN,
               pc_type : PCTypeStrings,
               device_config : DeviceStrings,
               order : OrderValues,
               pa : BOOLEAN,
               static_cond : BOOLEAN,
               visualization : BOOLEAN,
               pc_storage_opt : StorageOptStrings,
               pc_acc : AccValues,
               pc_max_bs : MaxBlockSizes,
               meshHasNodes : BOOLEAN]

\* An object that is not part of the specification being checked.
Idle == [pc |-> "idle"]

\* The strcmp chain with the two Ginkgo branches exchanged.
PCChoice_Swapped(s) ==
    IF s = "gko:bj" THEN "GKO_ILU"
    ELSE IF s = "gko:ilu" THEN "GKO_BLOCK_JACOBI"
    ELSE IF s = "mfem:gs" THEN "MFEM_GS"
    ELSE IF s = "none" THEN "NONE"
    ELSE "INVALID"

\* The strcmp chain with a default instead of the error branch.
PCChoice_Default(s) ==
    IF s = "gko:ilu" THEN "GKO_ILU"
    ELSE IF s = "mfem:gs" THEN "MFEM_GS"
    ELSE IF s = "none" THEN "NONE"
    ELSE "GKO_BLOCK_JACOBI"

\* enum PCType { NONE, GKO_BLOCK_JACOBI, GKO_ILU, MFEM_GS } as chosen by the
\* strcmp chain of lines 152-164; "INVALID" is its final else branch.
PCChoice(s) ==
    IF s = "gko:bj" THEN "GKO_BLOCK_JACOBI"
    ELSE IF s = "gko:ilu" THEN "GKO_ILU"
    ELSE IF s = "mfem:gs" THEN "MFEM_GS"
    ELSE IF s = "none" THEN "NONE"
    ELSE "INVALID"

\* bool pc left at its initial value in every branch.
PCFlag_AlwaysTrue(s) == s = s

\* bool pc: true (line 151) unless the type is "none" (line 158).
PCFlag(s) == s # "none"

NullHeap == [n \in HeapNames |-> "null"]

NoPrec == [type |-> "none", matrix |-> "none", storage_opt |-> "none",
           acc |-> "none", max_bs |-> 0]

NoSolve == [kind |-> "none", prec |-> NoPrec, matrix |-> "none",
            max_iter |-> "none", rtol |-> "none", atol |-> "none"]

MainInit(args) ==
    [pc |-> "parse",
     args |-> args,
     order |-> args.order,
     output_mesh |-> FALSE,
     pc_choice |-> "UNSET",
     pcflag |-> TRUE,
     executor |-> "none",
     device |-> "none",
     heap |-> NullHeap,
     A_pc |-> "empty",
     M |-> NoPrec,
     solve |-> NoSolve,
     log |-> <<>>,
     files |-> {},
     socket |-> FALSE,
     exit |-> -1]

ParseArgs_IgnoreGood ==
    /\ main.pc = "parse"
    /\ main' = [main EXCEPT !.pc = "selectpc",
                            !.log = Append(@, "PrintOptions")]
    /\ UNCHANGED <<tdo, tr, df, adv, phys>>

\* lines 141-147: args.Parse(); usage and return 1 when the parse failed.
ParseArgs ==
    /\ main.pc = "parse"
    /\ IF ~main.args.good
       THEN main' = [main EXCEPT !.pc = "exit", !.exit = 1,
                                 !.log = Append(@, "PrintUsage")]
       ELSE main' = [main EXCEPT !.pc = "selectpc",
                                 !.log = Append(@, "PrintOptions")]
    /\ UNCHANGED <<tdo, tr, df, adv, phys>>

\* mfem_error(msg): reports the message; the driver then returns.
mfem_error(m, msg) == [m EXCEPT !.log = Append(@, "mfem_error")]

\* lines 149-164: the strcmp chain.
SelectPC ==
    /\ main.pc = "selectpc"
    /\ LET c == PCChoice(main.args.pc_type) IN
       IF c = "INVALID"
       THEN main' = [mfem_error(main, "Invalid Preconditioner specified")
                        EXCEPT !.pc = "exit", !.exit = 3]
       ELSE main' = [main EXCEPT !.pc = "executor", !.pc_choice = c,
                                 !.pcflag = PCFlag(main.args.pc_type)]
    /\ UNCHANGED <<tdo, tr, df, adv, phys>>

\* lines 172-189: the Ginkgo executor.
CreateExecutor ==
    /\ main.pc = "executor"
    /\ main' = [main EXCEPT !.pc = "device",
                  !.executor = IF main.args.device_config = "cuda"
                               THEN "CudaExecutor" ELSE "OmpExecutor",
                  !.log = Append(@, "executor")]
    /\ UNCHANGED <<tdo, tr, df, adv, phys>>

\* lines 195-201: Device device(device_config).
ConfigureDevice ==
    /\ main.pc = "device"
    /\ main' = [main EXCEPT !.pc = "mesh", !.device = main.args.device_config,
                            !.log = Append(@, "device")]
    /\ UNCHANGED <<tdo, tr, df, adv, phys>>

\* lines 206-220: read the mesh and refine it uniformly.
ReadMesh ==
    /\ main.pc = "mesh"
    /\ main' = [main EXCEPT !.pc = "fespace", !.heap["mesh"] = "live",
                            !.log = Append(@, "mesh")]
    /\ UNCHANGED <<tdo, tr, df, adv, phys>>

\* lines 225-239: the collection is allocated for order > 0, borrowed from
\* the mesh nodes when there are nodes, else allocated with order = 1.
DefineSpace ==
    /\ main.pc = "fespace"
    /\ main' = [main EXCEPT
          !.pc = "lor",
          !.order = IF main.order > 0 \/ main.args.meshHasNodes
                    THEN main.order ELSE 1,
          !.heap["fec"] = IF main.order > 0 THEN "live"
                          ELSE IF main.args.meshHasNodes THEN "borrowed"
                          ELSE "live",
          !.heap["fespace"] = "live",
          !.log = Append(@, "fespace")]
    /\ UNCHANGED <<tdo, tr, df, adv, phys>>

\* lines 245-255: the LOR mesh, collection and space, only if (pc).
CreateLOR ==
    /\ main.pc = "lor"
    /\ IF main.pcflag
       THEN main' = [main EXCEPT !.pc = "rhs",
                       !.heap["mesh_lor"] = "live",
                       !.heap["fec_lor"] = "live",
                       !.heap["fespace_lor"] = "live",
                       !.log = @ \o <<"mesh_lor", "fec_lor", "fespace_lor">>]
       ELSE main' = [main EXCEPT !.pc = "rhs"]
    /\ UNCHANGED <<tdo, tr, df, adv, phys>>

\* lines 261-283: essential dofs, the linear form b and its assembly, x = 0.
AssembleRHS ==
    /\ main.pc = "rhs"
    /\ main' = [main EXCEPT !.pc = "bilinear", !.heap["b"] = "live",
                            !.log = Append(@, "b.Assemble")]
    /\ UNCHANGED <<tdo, tr, df, adv, phys>>

\* lines 288-305: the bilinear forms a and (if pc) a_pc; a is assembled.
AssembleBilinear ==
    /\ main.pc = "bilinear"
    /\ main' = [main EXCEPT !.pc = "formls",
                  !.heap["a"] = "live",
                  !.heap["a_pc"] = IF main.pcflag THEN "live" ELSE "null",
                  !.log = Append(@, "a.Assemble")]
    /\ UNCHANGED <<tdo, tr, df, adv, phys>>

\* lines 307-310: a->FormLinearSystem(ess_tdof_list, x, *b, A, X, B).
FormLinearSystem ==
    /\ main.pc = "formls"
    /\ main' = [main EXCEPT !.pc = "solve",
                            !.log = Append(@, "FormLinearSystem")]
    /\ UNCHANGED <<tdo, tr, df, adv, phys>>

\* lines 76-100: pcg_solve(A, M, B, X, 0, X.Size(), 1e-12, 0.0, it_time).
pcg_solve(m, prec) ==
    [m EXCEPT !.M = prec,
              !.solve = [kind |-> "pcg", prec |-> prec, matrix |-> "A",
                         max_iter |-> "X.Size", rtol |-> "sqrt(1e-12)",
                         atol |-> "sqrt(0)"],
              !.log = @ \o <<prec.type, "pcg_solve">>]

\* lines 51-74: cg_solve(A, B, X, 0, X.Size(), 1e-12, 0.0, it_time).
cg_solve(m) ==
    [m EXCEPT !.solve = [kind |-> "cg", prec |-> NoPrec, matrix |-> "A",
                         max_iter |-> "X.Size", rtol |-> "sqrt(1e-12)",
                         atol |-> "sqrt(0)"],
              !.log = Append(@, "cg_solve")]

\* lines 323-326: the LOR matrix A_pc is assembled from a_pc.
AssembleA_pc(m) ==
    [m EXCEPT !.A_pc = "a_pc(fespace_lor)", !.log = Append(@, "A_pc")]

\* lines 340-341: GinkgoJacobiPreconditioner M(executor, A_pc, pc_storage_opt,
\* pc_acc, pc_max_bs).
GinkgoJacobiPreconditioner(m) ==
    [type |-> "GinkgoJacobiPreconditioner", matrix |-> m.A_pc,
     storage_opt |-> m.args.pc_storage_opt, acc |-> m.args.pc_acc,
     max_bs |-> m.args.pc_max_bs]

GinkgoIluPreconditioner_WithOptions(m) ==
    [type |-> "GinkgoIluPreconditioner", matrix |-> m.A_pc,
     storage_opt |-> m.args.pc_storage_opt, acc |-> m.args.pc_acc,
     max_bs |-> m.args.pc_max_bs]

\* line 359: GinkgoIluPreconditioner M(executor, A_pc).
GinkgoIluPreconditioner(m) ==
    [NoPrec EXCEPT !.type = "GinkgoIluPreconditioner", !.matrix = m.A_pc]

\* line 378: GSSmoother M(A_pc).
GSSmoother(m) == [NoPrec EXCEPT !.type = "GSSmoother", !.matrix = m.A_pc]

\* lines 316-397: step 11, the four solve branches.
Solve ==
    /\ main.pc = "solve"
    /\ IF main.pcflag
       THEN LET m == AssembleA_pc(main) IN
            IF main.pc_choice = "GKO_BLOCK_JACOBI"
            THEN main' = [pcg_solve(m, GinkgoJacobiPreconditioner(m))
                            EXCEPT !.pc = "recover"]
            ELSE IF main.pc_choice = "GKO_ILU"
            THEN main' = [pcg_solve(m, GinkgoIluPreconditioner(m))
                            EXCEPT !.pc = "recover"]
            ELSE IF main.pc_choice = "MFEM_GS"
            THEN main' = [pcg_solve(m, GSSmoother(m)) EXCEPT !.pc = "recover"]
            ELSE main' = [m EXCEPT !.pc = "recover"]
       ELSE main' = [cg_solve(main) EXCEPT !.pc = "recover"]
    /\ UNCHANGED <<tdo, tr, df, adv, phys>>

\* line 403: a->RecoverFEMSolution(X, *b, x).
RecoverFEMSolution ==
    /\ main.pc = "recover"
    /\ main' = [main EXCEPT !.pc = "save",
                            !.log = Append(@, "RecoverFEMSolution")]
    /\ UNCHANGED <<tdo, tr, df, adv, phys>>

\* lines 409-428: step 13, guarded by output_mesh, which main initialises to
\* false and for which no option is registered.
SaveOutput ==
    /\ main.pc = "save"
    /\ IF main.output_mesh
       THEN main' = [main EXCEPT !.pc = "vis",
                       !.files = @ \cup {"refined.mesh", "sol.gf"}
                                   \cup (IF main.pcflag
                                         THEN {"lor-refined.mesh", "lor-mat.dat"}
                                         ELSE {})]
       ELSE main' = [main EXCEPT !.pc = "vis"]
    /\ UNCHANGED <<tdo, tr, df, adv, phys>>

Visualize_Always ==
    /\ main.pc = "vis"
    /\ main' = [main EXCEPT !.pc = "free", !.socket = TRUE,
                            !.log = Append(@, "socket")]
    /\ UNCHANGED <<tdo, tr, df, adv, phys>>

\* lines 431-438: step 14, the GLVis socket.
Visualize ==
    /\ main.pc = "vis"
    /\ IF main.args.visualization
       THEN main' = [main EXCEPT !.pc = "free", !.socket = TRUE,
                                 !.log = Append(@, "socket")]
       ELSE main' = [main EXCEPT !.pc = "free"]
    /\ UNCHANGED <<tdo, tr, df, adv, phys>>

\* delete p: nothing for a null pointer.
Delete(h, n) ==
    [h EXCEPT ![n] = IF h[n] = "live" THEN "deleted"
                     ELSE IF h[n] = "null" THEN "null"
                     ELSE "bad_delete"]

\* lines 441-451: step 15.
FreeMemory ==
    /\ main.pc = "free"
    /\ LET h1 == Delete(main.heap, "a")
           h2 == Delete(h1, "b")
           h3 == Delete(h2, "fespace")
           h4 == Delete(h3, "fespace_lor")
           h5 == Delete(h4, "fec_lor")
           h6 == Delete(h5, "mesh_lor")
           h7 == IF main.order > 0 THEN Delete(h6, "fec") ELSE h6
           h8 == Delete(h7, "mesh")
       IN main' = [main EXCEPT !.pc = "exit", !.heap = h8, !.exit = 0]
    /\ UNCHANGED <<tdo, tr, df, adv, phys>>

NextDriver ==
    \/ ParseArgs
    \/ SelectPC
    \/ CreateExecutor
    \/ ConfigureDevice
    \/ ReadMesh
    \/ DefineSpace
    \/ CreateLOR
    \/ AssembleRHS
    \/ AssembleBilinear
    \/ FormLinearSystem
    \/ Solve
    \/ RecoverFEMSolution
    \/ SaveOutput
    \/ Visualize
    \/ FreeMemory

InitDriver ==
    /\ main \in {MainInit(a) : a \in DriverArgs}
    /\ tdo = Idle
    /\ tr = Idle
    /\ df = Idle
    /\ adv = Idle
    /\ phys = Idle

SpecDriver == InitDriver /\ [][NextDriver]_vars

\* A run that reached the end of main (exit code 0).
RunCompleted == main.pc = "exit" /\ main.exit = 0

\* The solve of step 11 is behind the run.
Solved == main.pc \in {"recover", "save", "vis", "free"} \/ RunCompleted

ValidPCTypes == {"gko:bj", "gko:ilu", "mfem:gs", "none"}

\* The entries of a log that belong to a set of events, in order.
Events(log, S) == SelectSeq(log, LAMBDA e : e \in S)

IsPrefix(s, t) == Len(s) <= Len(t) /\ s = SubSeq(t, 1, Len(s))

BranchEvents == {"GinkgoJacobiPreconditioner", "GinkgoIluPreconditioner",
                 "GSSmoother", "cg_solve"}

ExpectedBranch(s) ==
    IF s = "gko:bj" THEN "GinkgoJacobiPreconditioner"
    ELSE IF s = "gko:ilu" THEN "GinkgoIluPreconditioner"
    ELSE IF s = "mfem:gs" THEN "GSSmoother"
    ELSE "cg_solve"

\* C1: for each of the four known preconditioner-type strings the branch
\* that the string names is the only solve branch that runs: after the solve
\* the branches taken are exactly that one, once, with that preconditioner
\* (none for "none"); before the solve no branch has run.
C1_ExactlyOneBranch ==
    (main.pc # "idle" /\ main.args.good
       /\ main.args.pc_type \in ValidPCTypes) =>
      /\ Solved =>
           /\ Events(main.log, BranchEvents)
                = <<ExpectedBranch(main.args.pc_type)>>
           /\ main.solve.prec.type
                = (IF main.args.pc_type = "none" THEN "none"
                   ELSE ExpectedBranch(main.args.pc_type))
      /\ ~Solved => Events(main.log, BranchEvents) = <<>>

C1_Witness ==
    /\ RunCompleted
    /\ main.args.pc_type = "gko:ilu"
    /\ main.solve.prec.type = "GinkgoIluPreconditioner"

\* C2: a preconditioner-type string that is none of the four ends the run
\* in the error outcome (mfem_error reported, exit code 3) with no executor,
\* device, mesh, space or linear system created and no solve performed.
C2_InvalidTypeIsError ==
    (main.pc \notin {"idle", "parse", "selectpc"} /\ main.args.good
       /\ main.args.pc_type \notin ValidPCTypes) =>
      /\ main.pc = "exit"
      /\ main.exit = 3
      /\ Events(main.log, {"mfem_error"}) = <<"mfem_error">>
      /\ main.executor = "none"
      /\ main.device = "none"
      /\ main.heap = NullHeap
      /\ main.A_pc = "empty"
      /\ main.solve = NoSolve
      /\ main.files = {}
      /\ ~main.socket

C2_Witness ==
    /\ main.pc = "exit"
    /\ main.exit = 3
    /\ main.args.pc_type = "NONE"

\* C3: every run that completes the solve has written the refined mesh file
\* and the solution grid-function file, whatever the options.
C3_OutputFilesWritten ==
    RunCompleted => {"refined.mesh", "sol.gf"} \subseteq main.files

WorkflowEvents == {"b.Assemble", "a.Assemble", "FormLinearSystem",
                   "pcg_solve", "cg_solve", "RecoverFEMSolution"}

ExpectedWorkflow(s) ==
    <<"b.Assemble", "a.Assemble", "FormLinearSystem",
      IF s = "none" THEN "cg_solve" ELSE "pcg_solve", "RecoverFEMSolution">>

\* C4: with a valid preconditioner type the workflow steps happen in the
\* order assemble b, assemble a, FormLinearSystem, one solve (pcg_solve, or
\* cg_solve for "none"), RecoverFEMSolution, each exactly once: the steps
\* logged so far are always a prefix of that sequence, and all of it once
\* the solution is recovered.
C4_WorkflowOrder ==
    (main.pc # "idle" /\ main.args.good
       /\ main.args.pc_type \in ValidPCTypes) =>
      /\ IsPrefix(Events(main.log, WorkflowEvents),
                  ExpectedWorkflow(main.args.pc_type))
      /\ (main.pc \in {"save", "vis", "free"} \/ RunCompleted) =>
            Events(main.log, WorkflowEvents)
              = ExpectedWorkflow(main.args.pc_type)
      /\ main.pc = "recover" =>
            Len(Events(main.log, WorkflowEvents)) = 4

C4_Witness ==
    /\ RunCompleted
    /\ main.args.pc_type = "none"
    /\ Events(main.log, WorkflowEvents) = ExpectedWorkflow("none")

LOREvents == {"mesh_lor", "fec_lor", "fespace_lor", "A_pc"} \cup BranchEvents

LORNames == {"mesh_lor", "fec_lor", "fespace_lor", "a_pc"}

\* C5: with type "none" the LOR objects mesh_lor, fec_lor, fespace_lor and
\* a_pc stay NULL, A_pc is never assembled and the solve is unpreconditioned
\* CG; with the three other valid types the LOR mesh, the LOR space and the
\* LOR matrix are built, in that order, before the preconditioner, which is
\* constructed from that LOR matrix.
C5_LOROnlyWithPreconditioner ==
    (main.pc # "idle" /\ main.args.good
       /\ main.args.pc_type \in ValidPCTypes) =>
      IF main.args.pc_type = "none"
      THEN /\ \A n \in LORNames : main.heap[n] = "null"
           /\ main.A_pc = "empty"
           /\ Events(main.log, LOREvents \ {"cg_solve"}) = <<>>
           /\ Solved => main.solve.kind = "cg" /\ main.solve.prec = NoPrec
      ELSE /\ Solved =>
                /\ Events(main.log, LOREvents)
                     = <<"mesh_lor", "fec_lor", "fespace_lor", "A_pc",
                         ExpectedBranch(main.args.pc_type)>>
                /\ main.solve.kind = "pcg"
                /\ main.solve.prec.matrix = "a_pc(fespace_lor)"
                /\ main.A_pc = "a_pc(fespace_lor)"
           /\ main.M # NoPrec =>
                /\ main.M.matrix = main.A_pc
                /\ main.A_pc # "empty"
                /\ \A n \in LORNames : main.heap[n] # "null"

C5_Witness ==
    /\ main.pc = "recover"
    /\ main.args.pc_type = "mfem:gs"
    /\ main.M.type = "GSSmoother"
    /\ main.M.matrix = "a_pc(fespace_lor)"

C5_WitnessNone ==
    /\ main.pc = "recover"
    /\ main.args.pc_type = "none"
    /\ main.solve.kind = "cg"

(***************************************************************************)
(* ---------- transport_solver.cpp : DGAdvectionDiffusionTDO ------------- *)
(***************************************************************************)

\* Time steps passed to ImplicitSolve are 1..MaxDt.
MaxDt == 2

\* Mesh changes (each followed, sooner or later, by Update) in one run.
MaxMeshChanges == 1

\* pgf_->ExchangeFaceNbrData() calls are counted modulo this number.
ExchangeModulus == 2

\* True dofs of the space on the initial mesh; a mesh change adds as many.
BaseTrueVSize == 4

\* The coefficient objects a caller passes to the setters (0 is the NULL
\* pointer).
CoefObjs == {1}

DtValues == 1..MaxDt

\* fes_->GetTrueVSize() on the mesh after v changes.
TrueVSize(v) == BaseTrueVSize * (v + 1)

\* A form pointer that is NULL.
NullForm == [exists |-> FALSE, integ |-> {}, fesv |-> 0]

\* A product coefficient pointer that is NULL.
NullCoef == [a |-> 0, b |-> 0]

\* An integrator added to a form: its class, where it integrates, and the
\* coefficient members (and the objects they pointed to) it was built from.
Integ(kind, place, coef, obj) ==
    [kind |-> kind, place |-> place, coef |-> coef, obj |-> obj,
     coef2 |-> "", obj2 |-> 0]

Integ2(kind, place, coef, obj, coef2, obj2) ==
    [kind |-> kind, place |-> place, coef |-> coef, obj |-> obj,
     coef2 |-> coef2, obj2 |-> obj2]

\* new ParBilinearForm(fes_) / new ParLinearForm(fes_) with its integrators.
NewForm(t, integ) == [exists |-> TRUE, integ |-> integ, fesv |-> t.fesv]

\* DiffusionIntegrator and the interior-face DGDiffusionIntegrator on one
\* coefficient.
DiffusionTerms(coef, obj) ==
    {Integ("DiffusionIntegrator", "domain", coef, obj),
     Integ("DGDiffusionIntegrator", "interior", coef, obj)}

\* ConvectionIntegrator and the two transposed DGTraceIntegrators on one
\* coefficient.
ConvectionTerms(coef, obj) ==
    {Integ("ConvectionIntegrator", "domain", coef, obj),
     Integ("TransposeIntegrator(DGTraceIntegrator)", "interior", coef, obj),
     Integ("TransposeIntegrator(DGTraceIntegrator)", "bdr", coef, obj)}

\* lines 252-302: the constructor.
TdoInit(imex) ==
    [pc |-> "live",
     status |-> "ok",
     imex |-> imex,
     dt_ |-> -1,
     fesv |-> 0,
     pendingUpdate |-> FALSE,
     height |-> TrueVSize(0),
     VCoef_ |-> 0, dCoef_ |-> 0, DCoef_ |-> 0, SCoef_ |-> 0,
     dbcCoef_ |-> 0, nbcCoef_ |-> 0,
     negVCoef_ |-> NullCoef, dtNegVCoef_ |-> NullCoef,
     dtdCoef_ |-> NullCoef, dtDCoef_ |-> NullCoef,
     m_ |-> [exists |-> TRUE,
             integ |-> {Integ("MassIntegrator", "domain", "CCoef_", 1)},
             fesv |-> 0],
     a_ |-> NullForm, b_ |-> NullForm, s_ |-> NullForm, k_ |-> NullForm,
     q_exp_ |-> NullForm, q_imp_ |-> NullForm,
     M_ |-> [exists |-> FALSE, fesv |-> 0],
     rhs_ |-> [fesv |-> 0, val |-> "init"],
     RHS_ |-> [size |-> TrueVSize(0), val |-> "init"],
     X_ |-> [size |-> TrueVSize(0), val |-> "init"],
     out |-> "untouched",
     exchanges |-> 0]

\* lines 323-331
initM(t) == [t EXCEPT !.M_ = [exists |-> TRUE, fesv |-> t.m_.fesv]]

\* initA that adds the convection terms to a_ also in IMEX mode.
initA_ConvectionAlways(t) ==
    IF t.a_.exists THEN t
    ELSE [t EXCEPT !.a_ = NewForm(t,
            {Integ("MassIntegrator", "domain", "CCoef_", 1)}
            \cup (IF t.dCoef_ # 0 THEN DiffusionTerms("dtdCoef_", 0)
                  ELSE IF t.DCoef_ # 0 THEN DiffusionTerms("dtDCoef_", 0)
                  ELSE {})
            \cup (IF t.negVCoef_ # NullCoef
                  THEN ConvectionTerms("dtNegVCoef_", 0) ELSE {}))]

\* lines 333-371
initA(t) ==
    IF t.a_.exists THEN t
    ELSE [t EXCEPT !.a_ = NewForm(t,
            {Integ("MassIntegrator", "domain", "CCoef_", 1)}
            \cup (IF t.dCoef_ # 0 THEN DiffusionTerms("dtdCoef_", 0)
                  ELSE IF t.DCoef_ # 0 THEN DiffusionTerms("dtDCoef_", 0)
                  ELSE {})
            \cup (IF t.negVCoef_ # NullCoef /\ ~t.imex
                  THEN ConvectionTerms("dtNegVCoef_", 0) ELSE {}))]

\* lines 373-417
initB(t) ==
    IF ~t.b_.exists /\ (t.dCoef_ # 0 \/ t.DCoef_ # 0 \/ t.VCoef_ # 0)
    THEN [t EXCEPT !.b_ = NewForm(t,
            (IF t.dCoef_ # 0 THEN DiffusionTerms("dCoef_", t.dCoef_)
             ELSE IF t.DCoef_ # 0 THEN DiffusionTerms("DCoef_", t.DCoef_)
             ELSE {})
            \cup (IF t.negVCoef_ # NullCoef
                  THEN ConvectionTerms("negVCoef_", 0) ELSE {}))]
    ELSE t

\* lines 419-453
initS(t) ==
    IF ~t.s_.exists /\ (t.dCoef_ # 0 \/ t.DCoef_ # 0)
    THEN [t EXCEPT !.s_ = NewForm(t,
            IF t.dCoef_ # 0 THEN DiffusionTerms("dCoef_", t.dCoef_)
            ELSE IF t.DCoef_ # 0 THEN DiffusionTerms("DCoef_", t.DCoef_)
            ELSE {})]
    ELSE t

\* lines 455-474
initK(t) ==
    IF ~t.k_.exists /\ t.VCoef_ # 0
    THEN [t EXCEPT !.k_ = NewForm(t,
            IF t.negVCoef_ # NullCoef
            THEN ConvectionTerms("negVCoef_", 0) ELSE {})]
    ELSE t

\* The condition under which initQ creates a linear form (lines 480-481,
\* 498-499, 522-523).
NeedQ(t) ==
    t.SCoef_ # 0
    \/ (t.dbcCoef_ # 0 /\ (t.dCoef_ # 0 \/ t.DCoef_ # 0 \/ t.VCoef_ # 0))

SourceTerm(t) == Integ("DomainLFIntegrator", "domain", "SCoef_", t.SCoef_)

BoundaryFlowTerm(t) ==
    Integ2("BoundaryFlowIntegrator", "bdr", "dbcCoef_", t.dbcCoef_,
           "negVCoef_", 0)

DirichletTerm(t, coef, obj) ==
    Integ2("DGDirichletLFIntegrator", "bdr", "dbcCoef_", t.dbcCoef_,
           coef, obj)

\* lines 480-497: q_exp_ in IMEX mode.
initQexp(t) ==
    IF ~t.q_exp_.exists /\ NeedQ(t)
    THEN [t EXCEPT !.q_exp_ = NewForm(t,
            (IF t.SCoef_ # 0 THEN {SourceTerm(t)} ELSE {})
            \cup (IF t.dbcCoef_ # 0 /\ t.VCoef_ # 0
                     /\ ~(t.dCoef_ # 0 \/ t.DCoef_ # 0)
                  THEN {BoundaryFlowTerm(t)} ELSE {}))]
    ELSE t

\* lines 498-518: q_imp_ in IMEX mode.
initQimpIMEX(t) ==
    IF ~t.q_imp_.exists /\ NeedQ(t)
    THEN [t EXCEPT !.q_imp_ = NewForm(t,
            IF t.dbcCoef_ # 0 /\ t.dCoef_ # 0
            THEN {DirichletTerm(t, "dCoef_", t.dCoef_)}
            ELSE IF t.dbcCoef_ # 0 /\ t.DCoef_ # 0
            THEN {DirichletTerm(t, "DCoef_", t.DCoef_)}
            ELSE {})]
    ELSE t

\* lines 522-553: q_imp_ in the fully implicit mode.
initQimp(t) ==
    IF ~t.q_imp_.exists /\ NeedQ(t)
    THEN [t EXCEPT !.q_imp_ = NewForm(t,
            (IF t.SCoef_ # 0 THEN {SourceTerm(t)} ELSE {})
            \cup (IF t.dbcCoef_ # 0 /\ t.dCoef_ # 0
                  THEN {DirichletTerm(t, "dCoef_", t.dCoef_)}
                  ELSE IF t.dbcCoef_ # 0 /\ t.DCoef_ # 0
                  THEN {DirichletTerm(t, "DCoef_", t.DCoef_)}
                  ELSE IF t.dbcCoef_ # 0 /\ t.VCoef_ # 0
                  THEN {BoundaryFlowTerm(t)}
                  ELSE {}))]
    ELSE t

\* lines 476-555
initQ(t) == IF t.imex THEN initQimpIMEX(initQexp(t)) ELSE initQimp(t)

\* lines 557-581
SetTimeBody(t) ==
    LET t1 == initA(initM(t))
        t2 == IF t.imex THEN initK(initS(t1)) ELSE initB(t1)
    IN initQ(t2)

TdoSetTime ==
    /\ tdo.status = "ok"
    /\ ~tdo.pendingUpdate
    /\ tdo' = SetTimeBody(tdo)
    /\ UNCHANGED <<main, tr, df, adv, phys>>

\* lines 604-612, 626-635, 649-658: the forms a setter deletes.
DeleteForms(t, names) ==
    [f \in DOMAIN t |-> IF f \in names THEN NullForm ELSE t[f]]

\* lines 589-613
SetAdvectionCoefficient(V) ==
    /\ tdo.status = "ok"
    /\ ~tdo.pendingUpdate
    /\ LET t1 == [tdo EXCEPT
                    !.VCoef_ = V,
                    !.negVCoef_ = [a |-> -1, b |-> V],
                    \* dtNegVCoef_ wraps the member negVCoef_ (b = 1)
                    !.dtNegVCoef_ = IF tdo.dtNegVCoef_ = NullCoef
                                    THEN [a |-> tdo.dt_, b |-> 1]
                                    ELSE @]
       IN tdo' = DeleteForms(t1, IF tdo.imex THEN {"k_"} ELSE {"a_", "b_"})
    /\ UNCHANGED <<main, tr, df, adv, phys>>

\* lines 615-636
SetDiffusionCoefficient(d) ==
    /\ tdo.status = "ok"
    /\ ~tdo.pendingUpdate
    /\ LET t1 == [tdo EXCEPT
                    !.dCoef_ = d,
                    !.dtdCoef_ = IF tdo.dtdCoef_ = NullCoef
                                 THEN [a |-> tdo.dt_, b |-> d]
                                 ELSE [@ EXCEPT !.b = d]]
       IN tdo' = DeleteForms(t1, IF tdo.imex THEN {"a_", "s_"}
                                 ELSE {"a_", "b_"})
    /\ UNCHANGED <<main, tr, df, adv, phys>>

\* lines 638-659
SetDiffusionCoefficientMatrix(D) ==
    /\ tdo.status = "ok"
    /\ ~tdo.pendingUpdate
    /\ LET t1 == [tdo EXCEPT
                    !.DCoef_ = D,
                    !.dtDCoef_ = IF tdo.dtDCoef_ = NullCoef
                                 THEN [a |-> tdo.dt_, b |-> D]
                                 ELSE [@ EXCEPT !.b = D]]
       IN tdo' = DeleteForms(t1, IF tdo.imex THEN {"a_", "s_"}
                                 ELSE {"a_", "b_"})
    /\ UNCHANGED <<main, tr, df, adv, phys>>

\* lines 661-666
SetSourceCoefficient(S) ==
    /\ tdo.status = "ok"
    /\ ~tdo.pendingUpdate
    /\ tdo' = DeleteForms([tdo EXCEPT !.SCoef_ = S],
                          {"q_exp_", "q_imp_"})
    /\ UNCHANGED <<main, tr, df, adv, phys>>

\* lines 668-675
SetDirichletBC(dbc) ==
    /\ tdo.status = "ok"
    /\ ~tdo.pendingUpdate
    /\ tdo' = DeleteForms([tdo EXCEPT !.dbcCoef_ = dbc],
                          {"q_exp_", "q_imp_"})
    /\ UNCHANGED <<main, tr, df, adv, phys>>

\* lines 677-684
SetNeumannBC(nbc) ==
    /\ tdo.status = "ok"
    /\ ~tdo.pendingUpdate
    /\ tdo' = DeleteForms([tdo EXCEPT !.nbcCoef_ = nbc],
                          {"q_exp_", "q_imp_"})
    /\ UNCHANGED <<main, tr, df, adv, phys>>

Abs(x) == IF x < 0 THEN -x ELSE x

\* The relative tolerance 1e-4 of the time step comparisons, as 1/10000.
TolDenominator == 10000

\* MFEM_VERIFY compiled out, as MFEM_ASSERT is in a release build.
VerifyImex_Skipped(t) == t = t

\* line 688: MFEM_VERIFY(imex_, ...)
VerifyImex(t) == t.imex

\* lines 686-713
ExplicitMultBody(t) ==
    IF ~VerifyImex(t)
    THEN [t EXCEPT !.status = "aborted"]
    ELSE [t EXCEPT !.exchanges = (@ + 1) % ExchangeModulus,
                   !.rhs_.val = "q_exp-k*x",
                   !.RHS_.val = "ParallelAssemble(q_exp-k*x)",
                   !.X_.val = "M_solver(RHS)",
                   !.out = "M_solver(RHS)"]

ExplicitMult ==
    /\ tdo.status = "ok"
    /\ ~tdo.pendingUpdate
    /\ tdo' = ExplicitMultBody(tdo)
    /\ UNCHANGED <<main, tr, df, adv, phys>>

\* line 725: fabs(dt - dt_) > 1e-4 * dt_
TdoDtChanged(dt, dt_) == Abs(dt - dt_) * TolDenominator > dt_

\* lines 718-774: ImplicitSolve up to the first use of a_.
ImplicitSolveHead(t, dt) ==
    LET ch == TdoDtChanged(dt, t.dt_)
        setA(c) == IF ch /\ c # NullCoef THEN [c EXCEPT !.a = dt] ELSE c
    IN [t EXCEPT !.exchanges = (@ + 1) % ExchangeModulus,
                 !.dtdCoef_ = setA(@),
                 !.dtDCoef_ = setA(@),
                 !.dtNegVCoef_ = setA(@),
                 !.dt_ = IF ch THEN dt ELSE @,
                 !.rhs_.val = "q_imp",
                 !.RHS_.val = IF t.imex THEN "ParallelAssemble(q_imp)-S*u"
                              ELSE "ParallelAssemble(q_imp)-B*u",
                 !.X_.val = "P*u"]

\* lines 776-820: assemble a_, solve with CG (IMEX) or GMRES, copy to dudt.
ImplicitSolveTail(t) ==
    LET x == IF t.imex THEN "CGSolver(RHS)" ELSE "GMRESSolver(RHS)"
    IN [t EXCEPT !.X_.val = x, !.out = x]

\* lines 715-821.  a_ is dereferenced without a NULL check (line 776): with
\* a_ NULL the call either faults there or goes on with an arbitrary result.
TdoImplicitSolve(dt) ==
    /\ tdo.status = "ok"
    /\ ~tdo.pendingUpdate
    /\ LET h == ImplicitSolveHead(tdo, dt) IN
       IF tdo.a_.exists
       THEN tdo' = ImplicitSolveTail(h)
       ELSE \/ tdo' = [h EXCEPT !.status = "crashed"]
            \/ tdo' = [h EXCEPT !.X_.val = "garbage", !.out = "garbage"]
    /\ UNCHANGED <<main, tr, df, adv, phys>>

\* The caller refines the mesh and updates fes_; the next call it makes on
\* the operator is Update.
MeshChange ==
    /\ tdo.status = "ok"
    /\ ~tdo.pendingUpdate
    /\ tdo.fesv < MaxMeshChanges
    /\ tdo' = [tdo EXCEPT !.fesv = @ + 1, !.pendingUpdate = TRUE]
    /\ UNCHANGED <<main, tr, df, adv, phys>>

\* form->Update() if (form), lines 830-834.
UpdateIfExists(t, f) == IF f.exists THEN [f EXCEPT !.fesv = t.fesv] ELSE f

\* lines 825-827: height, width and m_.
UpdateHead(t) ==
    [t EXCEPT !.pendingUpdate = FALSE,
              !.height = TrueVSize(t.fesv),
              !.m_.fesv = t.fesv]

\* lines 830-838: the guarded forms, rhs_, RHS_ and X_.
UpdateTail(t) ==
    [t EXCEPT !.b_ = UpdateIfExists(t, @),
              !.s_ = UpdateIfExists(t, @),
              !.k_ = UpdateIfExists(t, @),
              !.q_exp_ = UpdateIfExists(t, @),
              !.q_imp_ = UpdateIfExists(t, @),
              !.rhs_.fesv = t.fesv,
              !.RHS_.size = TrueVSize(t.fesv),
              !.X_.size = TrueVSize(t.fesv)]

\* lines 823-839.  a_->Update() has no NULL check (line 828): with a_ NULL
\* the call either faults there or the null call is passed over.
TdoUpdate ==
    /\ tdo.status = "ok"
    /\ LET h == UpdateHead(tdo) IN
       IF tdo.a_.exists
       THEN tdo' = UpdateTail([h EXCEPT !.a_.fesv = tdo.fesv])
       ELSE \/ tdo' = [h EXCEPT !.status = "crashed"]
            \/ tdo' = UpdateTail(h)
    /\ UNCHANGED <<main, tr, df, adv, phys>>

NextAD ==
    \/ TdoSetTime
    \/ \E V \in CoefObjs : SetAdvectionCoefficient(V)
    \/ \E d \in CoefObjs : SetDiffusionCoefficient(d)
    \/ \E D \in CoefObjs : SetDiffusionCoefficientMatrix(D)
    \/ \E S \in CoefObjs : SetSourceCoefficient(S)
    \/ \E dbc \in CoefObjs : SetDirichletBC(dbc)
    \/ \E nbc \in CoefObjs : SetNeumannBC(nbc)
    \/ ExplicitMult
    \/ \E dt \in DtValues : TdoImplicitSolve(dt)
    \/ MeshChange
    \/ TdoUpdate

InitAD ==
    /\ tdo \in {TdoInit(imex) : imex \in BOOLEAN}
    /\ main = Idle
    /\ tr = Idle
    /\ df = Idle
    /\ adv = Idle
    /\ phys = Idle

SpecAD == InitAD /\ [][NextAD]_vars

FormNames == {"m_", "a_", "b_", "s_", "k_", "q_exp_", "q_imp_"}

ConvectionKinds == {"ConvectionIntegrator",
                    "TransposeIntegrator(DGTraceIntegrator)"}

DiffusionKinds == {"DiffusionIntegrator", "DGDiffusionIntegrator"}

SourceKinds == {"DomainLFIntegrator"}

DirichletKinds == {"BoundaryFlowIntegrator", "DGDirichletLFIntegrator"}

\* A form holds an integrator of one of the kinds.
Has(form, kinds) == \E i \in form.integ : i.kind \in kinds

\* The operator is as SetTime leaves it: SetTime only creates what is
\* missing, so these are the states a further SetTime would not change.
AfterSetTime == tdo.status = "ok" /\ SetTimeBody(tdo) = tdo

\* C6: ExplicitMult on an operator constructed with imex = false fails the
\* MFEM_VERIFY check first: the call ends aborted, no face-neighbour exchange
\* is issued, and rhs_, RHS_, X_ and the output vector keep their values.
C6_ExplicitMultRejected ==
    [][(tdo.pc # "idle" /\ ~tdo.imex /\ ExplicitMult) =>
          /\ tdo'.status = "aborted"
          /\ tdo'.exchanges = tdo.exchanges
          /\ tdo'.rhs_ = tdo.rhs_
          /\ tdo'.RHS_ = tdo.RHS_
          /\ tdo'.X_ = tdo.X_
          /\ tdo'.out = tdo.out]_vars

C6_Witness ==
    /\ tdo.status = "aborted"
    /\ ~tdo.imex
    /\ tdo.exchanges = 1
    /\ tdo.X_.val = "GMRESSolver(RHS)"
    /\ tdo.out = "GMRESSolver(RHS)"

\* C7: in IMEX mode, after SetTime, each PDE term is on one side of the
\* split: convection integrators only in the explicit form k_ (none in a_ or
\* s_), and in k_ when an advection coefficient is set; diffusion integrators
\* only in the implicit forms a_ and s_ (none in k_), and in both when a
\* diffusion coefficient is set; the source integrator only in q_exp_ (none
\* in q_imp_), and there when a source is set; a Dirichlet boundary term in
\* at most one of q_exp_ and q_imp_.
C7_IMEXSplit ==
    (tdo.pc # "idle" /\ tdo.imex /\ AfterSetTime) =>
      /\ ~Has(tdo.a_, ConvectionKinds)
      /\ ~Has(tdo.s_, ConvectionKinds)
      /\ tdo.VCoef_ # 0 => Has(tdo.k_, ConvectionKinds)
      /\ ~Has(tdo.k_, DiffusionKinds)
      /\ (tdo.dCoef_ # 0 \/ tdo.DCoef_ # 0) =>
            Has(tdo.a_, DiffusionKinds) /\ Has(tdo.s_, DiffusionKinds)
      /\ ~Has(tdo.q_imp_, SourceKinds)
      /\ tdo.SCoef_ # 0 => Has(tdo.q_exp_, SourceKinds)
      /\ ~(Has(tdo.q_exp_, DirichletKinds) /\ Has(tdo.q_imp_, DirichletKinds))
      /\ ~tdo.b_.exists

C7_Witness ==
    /\ tdo.imex
    /\ AfterSetTime
    /\ tdo.VCoef_ # 0 /\ tdo.DCoef_ # 0 /\ tdo.SCoef_ # 0 /\ tdo.dbcCoef_ # 0
    /\ Has(tdo.k_, ConvectionKinds)
    /\ Has(tdo.a_, DiffusionKinds)
    /\ Has(tdo.q_exp_, SourceKinds)
    /\ Has(tdo.q_exp_, DirichletKinds)

\* C10: Update, in any state reachable through the constructor, the setters,
\* SetTime and ImplicitSolve, updates every owned form that exists, skips
\* every form that does not, and resizes RHS_ and X_ to the new true size.
C10_UpdatePropagates ==
    [][(tdo.pc # "idle" /\ TdoUpdate) =>
          /\ tdo'.status = "ok"
          /\ \A f \in FormNames :
               /\ tdo'[f].exists = tdo[f].exists
               /\ tdo[f].exists => tdo'[f].fesv = tdo.fesv
          /\ tdo'.RHS_.size = TrueVSize(tdo.fesv)
          /\ tdo'.X_.size = TrueVSize(tdo.fesv)]_vars

(***************************************************************************)
(* DGTransportTDO (miniapps/plasma/transport_solver.cpp)                   *)
(*                                                                         *)
(* tr holds the operator, its CombinedOp op_ with the five equation        *)
(* operators, the grid function arrays yGF_ and kGF_ it shares with its    *)
(* caller, and the position of a running ImplicitSolve.  A data pointer is *)
(* a record [base, own, off]: the caller's vector or array (own: which of  *)
(* its separately allocated arrays, -1 for the vector) and an offset.  A    *)
(* value the source never sets before SetTimeStep is written Unset.        *)
(***************************************************************************)

\* Newton iterations explored per solve (the code allows SetMaxIter(10)).
NewtonMaxIter == 2

Eqs == 0..4

\* op_flag values: no equation active, all active, and two mixed choices
\* that between them make every equation both active and a DummyOp.
OpFlags == {0, 10, 21, 31}

YVectors == {"y"}

KVectors == {"k"}

\* A value SetTimeStep writes: not yet set by the source, or a number.
Unset == [set |-> FALSE]

Const(x) == [set |-> TRUE, v |-> x]

NullPtr == [base |-> "NULL", own |-> -1, off |-> 0]

\* The data of a caller's vector.
VectorData(name) == [base |-> name, own |-> -1, off |-> 0]

\* p + n
PtrAdd(p, n) == [p EXCEPT !.off = @ + n]

\* The class CombinedOp builds for equation i under op_flag.
OpClass(op_flag, i) ==
    IF (op_flag \div (2 ^ i)) % 2 = 1
    THEN CASE i = 0 -> "NeutralDensityOp"
           [] i = 1 -> "IonDensityOp"
           [] i = 2 -> "IonMomentumOp"
           [] i = 3 -> "IonStaticPressureOp"
           [] i = 4 -> "ElectronStaticPressureOp"
    ELSE "DummyOp"

\* The coefficients of a class that its SetTimeStep writes.
DtCoefs(class) ==
    CASE class = "NeutralDensityOp" ->
            {"dtDCoef_", "dtdSizdnnCoef_", "dtdSizdniCoef_"}
      [] class = "IonDensityOp" ->
            {"dtDCoef_", "ViCoef_", "dtViCoef_",
             "negdtdSizdnnCoef_", "negdtdSizdniCoef_"}
      [] class = "IonMomentumOp" ->
            {"dtEtaCoef_", "miniViCoef_", "dtminiViCoef_"}
      [] class = "IonStaticPressureOp" -> {"dtChiCoef_"}
      [] class = "ElectronStaticPressureOp" ->
            {"grad_Te1Coef_", "dtChiCoef_", "dtdChiGradTCoef_"}
      [] class = "DummyOp" -> {}

\* Coefficients constructed without a constant of their own.
UnsetCoefs == {"ViCoef_", "miniViCoef_", "grad_Te1Coef_"}

\* NLOperator::NLOperator and the member initialisers of the subclass:
\* dt_(0.0), y1Coef_[i] = new SumCoefficient(y, k), dt...Coef_(0.0, ...);
\* Operator(VSize, 5 * VSize) for the space in its state v.
NLOperatorInit(class, v) ==
    [ class   |-> class,
      height  |-> TrueVSize(v),
      width   |-> 5 * TrueVSize(v),
      dt_     |-> 0,
      y1Coef_ |-> [j \in Eqs |-> Unset],
      coef    |-> [c \in DtCoefs(class) |->
                      IF c \in UnsetCoefs THEN Unset ELSE Const(0)] ]

NLOperator_SetTimeStep(op, dt) ==
    [op EXCEPT !.dt_ = dt, !.y1Coef_ = [j \in Eqs |-> Const(dt)]]

NeutralDensityOp_SetTimeStep(op, dt) ==
    LET o == NLOperator_SetTimeStep(op, dt) IN
    [o EXCEPT !.coef = [@ EXCEPT !["dtDCoef_"] = Const(dt),
                                 !["dtdSizdnnCoef_"] = Const(dt),
                                 !["dtdSizdniCoef_"] = Const(dt)]]

IonDensityOp_SetTimeStep(op, dt) ==
    LET o == NLOperator_SetTimeStep(op, dt) IN
    [o EXCEPT !.coef = [@ EXCEPT !["dtDCoef_"] = Const(dt),
                                 !["ViCoef_"] = Const(dt),
                                 !["dtViCoef_"] = Const(dt),
                                 !["negdtdSizdnnCoef_"] = Const(-dt),
                                 !["negdtdSizdniCoef_"] = Const(-dt)]]

IonMomentumOp_SetTimeStep(op, dt) ==
    LET o == NLOperator_SetTimeStep(op, dt) IN
    [o EXCEPT !.coef = [@ EXCEPT !["dtEtaCoef_"] = Const(dt),
                                 !["miniViCoef_"] = Const(dt),
                                 !["dtminiViCoef_"] = Const(dt)]]

IonStaticPressureOp_SetTimeStep(op, dt) ==
    LET o == NLOperator_SetTimeStep(op, dt) IN
    [o EXCEPT !.coef = [@ EXCEPT !["dtChiCoef_"] = Const(dt)]]

ElectronStaticPressureOp_SetTimeStep(op, dt) ==
    LET o == NLOperator_SetTimeStep(op, dt) IN
    [o EXCEPT !.coef = [@ EXCEPT !["grad_Te1Coef_"] = Const(dt),
                                 !["dtChiCoef_"] = Const(dt),
                                 !["dtdChiGradTCoef_"] = Const(-dt)]]

\* op_[i]->SetTimeStep(dt): the override of the object's class; DummyOp has
\* none and runs NLOperator::SetTimeStep.
SetTimeStep(op, dt) ==
    CASE op.class = "NeutralDensityOp" -> NeutralDensityOp_SetTimeStep(op, dt)
      [] op.class = "IonDensityOp" -> IonDensityOp_SetTimeStep(op, dt)
      [] op.class = "IonMomentumOp" -> IonMomentumOp_SetTimeStep(op, dt)
      [] op.class = "IonStaticPressureOp" ->
            IonStaticPressureOp_SetTimeStep(op, dt)
      [] op.class = "ElectronStaticPressureOp" ->
            ElectronStaticPressureOp_SetTimeStep(op, dt)
      [] op.class = "DummyOp" -> NLOperator_SetTimeStep(op, dt)

CombinedOp_SetTimeStep_SkipLast(ops, dt) ==
    [i \in Eqs |-> IF i < 4 THEN SetTimeStep(ops[i], dt) ELSE ops[i]]

CombinedOp_SetTimeStep(ops, dt) ==
    [i \in Eqs |-> SetTimeStep(ops[i], dt)]

RECURSIVE PartialSum(_, _)
PartialSum(a, i) == IF i = 0 THEN a[0] ELSE PartialSum(a, i - 1) + a[i]

updateOffsets_NoPartialSum(heights) ==
    [i \in 0..5 |-> IF i = 0 THEN 0 ELSE heights[i - 1]]

\* CombinedOp::updateOffsets: offsets_[0] = 0, offsets_[i+1] = Height of
\* operator i, then the partial sums.
updateOffsets(heights) ==
    LET a == [i \in 0..5 |-> IF i = 0 THEN 0 ELSE heights[i - 1]] IN
    [i \in 0..5 |-> PartialSum(a, i)]

\* Where the caller puts field i in a block vector over the space in its
\* state v.
CallerOffsets(v) == [i \in 0..5 |-> i * TrueVSize(v)]

\* The grid functions as the caller hands them over: views into one block
\* vector, arrays of their own, or (kGF only) without data.
CallerData(name, layout, offsets) ==
    [i \in Eqs |->
        CASE layout = "block" -> PtrAdd(VectorData(name), offsets[i])
          [] layout = "separate" ->
                [base |-> name, own |-> i, off |-> 0]
          [] layout = "null" -> NullPtr]

NullGrad == [exists |-> FALSE]

\* Nothing evaluated yet.
NoEval == [exists |-> FALSE]

\* DGTransportTDO::DGTransportTDO with CombinedOp::CombinedOp.  entry keeps
\* the two arrays as they were when the running (or last) ImplicitSolve was
\* entered.
TrInit(op_flag, ylayout, klayout) ==
    LET ops == [i \in Eqs |-> NLOperatorInit(OpClass(op_flag, i), 0)]
        offs == updateOffsets([i \in Eqs |-> ops[i].height])
        yg == CallerData("yGF", ylayout, CallerOffsets(0))
        kg == CallerData("kGF", klayout, CallerOffsets(0))
    IN
    [ pc       |-> "ready",
      op_flag  |-> op_flag,
      fesv     |-> 0,
      pendingUpdate |-> FALSE,
      ylayout  |-> ylayout,
      klayout  |-> klayout,
      height   |-> 5 * TrueVSize(0),
      op_      |-> ops,
      offsets_ |-> offs,
      op_height |-> offs[5],
      op_width |-> offs[5],
      yGF_     |-> yg,
      kGF_     |-> kg,
      yNbr     |-> [i \in Eqs |-> NullPtr],
      kNbr     |-> [i \in Eqs |-> NullPtr],
      grad_    |-> NullGrad,
      resid    |-> NullGrad,
      fields   |-> NoEval,
      entry    |-> [yGF_ |-> yg, kGF_ |-> kg],
      dt       |-> 0,
      y        |-> "none",
      k        |-> "none",
      kzero    |-> FALSE,
      prev_y   |-> NullPtr,
      prev_k   |-> NullPtr,
      it       |-> 0 ]

MakeRefs_NoOffset(offsets, p) == [i \in Eqs |-> p]

\* for (i) gf[i]->MakeRef(&fes_, p + offsets_[i])
MakeRefs(offsets, p) == [i \in Eqs |-> PtrAdd(p, offsets[i])]

RetargetY(t, p) == [t EXCEPT !.yGF_ = MakeRefs(t.offsets_, p)]

RetargetK(t, p) == [t EXCEPT !.kGF_ = MakeRefs(t.offsets_, p)]

\* yGF_.ExchangeFaceNbrData(): the neighbour data is that of the current
\* targets.
ExchangeY(t) == [t EXCEPT !.yNbr = t.yGF_]

ExchangeK_Skipped(t) == t

\* kGF_.ExchangeFaceNbrData()
ExchangeK(t) == [t EXCEPT !.kNbr = t.kGF_]

\* Restore kGF_ to prev_k + offsets_[i]; exchange if (prev_k != NULL).
RestoreK(t, prev_k) ==
    LET r == RetargetK(t, prev_k) IN
    IF prev_k # NullPtr THEN ExchangeK(r) ELSE r

\* What the equation operators see when they are evaluated or assembled:
\* their time steps, the targets of both arrays and the targets the
\* neighbour data was last exchanged for.
Evaluation(t, x) ==
    [ exists |-> TRUE,
      dt     |-> [i \in Eqs |-> t.op_[i].dt_],
      x      |-> x,
      yGF    |-> t.yGF_,
      yNbr   |-> t.yNbr,
      kGF    |-> t.kGF_,
      kNbr   |-> t.kNbr,
      size   |-> t.op_height,
      out    |-> [i \in Eqs |-> [lo |-> t.offsets_[i],
                                 hi |-> t.offsets_[i + 1]]] ]

\* DGTransportTDO::ImplicitSolve up to the call of the Newton solver:
\* k = 0, both arrays retargeted and exchanged, time step set.
ImplicitSolveBegin(dt, y, k) ==
    /\ tr.pc = "ready"
    /\ ~tr.pendingUpdate
    /\ LET t0 == [tr EXCEPT !.entry = [yGF_ |-> tr.yGF_, kGF_ |-> tr.kGF_],
                            !.dt = dt, !.y = y, !.k = k, !.kzero = TRUE,
                            !.prev_y = tr.yGF_[0]]
           t1 == ExchangeY(RetargetY(t0, VectorData(y)))
           t2 == [t1 EXCEPT !.prev_k = t1.kGF_[0]]
           t3 == ExchangeK(RetargetK(t2, VectorData(k)))
       IN tr' = [t3 EXCEPT !.pc = "newton",
                           !.op_ = CombinedOp_SetTimeStep(t3.op_, dt),
                           !.it = 0]
    /\ UNCHANGED <<main, tdo, df, adv, phys>>

\* CombinedOp::Mult(x, r): kGF_ retargeted to x and exchanged, every
\* operator evaluated into its block of r, kGF_ restored.
CombinedOp_Mult(t, x) ==
    LET prev_k == t.kGF_[0]
        a == ExchangeK(RetargetK(t, VectorData(x)))
        b == [a EXCEPT !.resid = Evaluation(a, x)]
    IN RestoreK(b, prev_k)

\* CombinedOp::UpdateGradient(x): the old gradient deleted, kGF_ retargeted
\* to x and exchanged, a new BlockOperator assembled from the operators'
\* gradient blocks, kGF_ restored.
CombinedOp_UpdateGradient(t, x) ==
    LET prev_k == t.kGF_[0]
        a == ExchangeK(RetargetK(t, VectorData(x)))
        b == [a EXCEPT !.grad_ = Evaluation(a, x)]
    IN RestoreK(b, prev_k)

\* CombinedOp::PrepareDataFields: kGF_ retargeted to a local zero vector and
\* exchanged, the operators project their data fields, kGF_ restored.
CombinedOp_PrepareDataFields(t) ==
    LET prev_k == t.kGF_[0]
        a == ExchangeK(RetargetK(t, VectorData("local k")))
        b == [a EXCEPT !.fields = Evaluation(a, "local k")]
    IN RestoreK(b, prev_k)

\* DGTransportTDO::PrepareDataFields
PrepareDataFields ==
    /\ tr.pc = "ready"
    /\ ~tr.pendingUpdate
    /\ tr' = CombinedOp_PrepareDataFields(tr)
    /\ UNCHANGED <<main, tdo, df, adv, phys>>

\* The Newton solver evaluates the residual: first on entry, then after
\* every update of k.
NewtonResidual ==
    /\ tr.pc \in {"newton", "stepped"}
    /\ tr' = [CombinedOp_Mult(tr, tr.k) EXCEPT !.pc = "check"]
    /\ UNCHANGED <<main, tdo, df, adv, phys>>

\* The residual is too large and iterations remain: the gradient is
\* rebuilt, the linear system solved and k updated.
NewtonStep ==
    /\ tr.pc = "check"
    /\ tr.it < NewtonMaxIter
    /\ tr' = [CombinedOp_UpdateGradient(tr, tr.k) EXCEPT
                 !.pc = "stepped", !.it = @ + 1, !.kzero = FALSE]
    /\ UNCHANGED <<main, tdo, df, adv, phys>>

\* The Newton solver returns (converged, or out of iterations) and
\* ImplicitSolve restores the data arrays: yGF_ to prev_y + offsets_[i] and
\* exchanged, kGF_ to prev_k + offsets_[i] and exchanged if prev_k != NULL.
ImplicitSolveEnd ==
    /\ tr.pc = "check"
    /\ LET t1 == ExchangeY(RetargetY(tr, tr.prev_y))
           t2 == RestoreK(t1, tr.prev_k)
       IN tr' = [t2 EXCEPT !.pc = "ready",
                           !.dt = 0, !.y = "none", !.k = "none",
                           !.kzero = FALSE,
                           !.prev_y = NullPtr, !.prev_k = NullPtr,
                           !.it = 0]
    /\ UNCHANGED <<main, tdo, df, adv, phys>>

\* The caller refines the mesh, updates the spaces and its own vectors and
\* grid functions; the next call it makes on the operator is Update.
TrMeshChange ==
    /\ tr.pc = "ready"
    /\ ~tr.pendingUpdate
    /\ tr.fesv < MaxMeshChanges
    /\ LET v == tr.fesv + 1 IN
       tr' = [tr EXCEPT !.fesv = v, !.pendingUpdate = TRUE,
                        !.yGF_ = CallerData("yGF", tr.ylayout,
                                            CallerOffsets(v)),
                        !.kGF_ = CallerData("kGF", tr.klayout,
                                            CallerOffsets(v))]
    /\ UNCHANGED <<main, tdo, df, adv, phys>>

\* NLOperator::Update: height = fes_.GetVSize(), width = 5 * height.
NLOperator_Update(op, v) ==
    [op EXCEPT !.height = TrueVSize(v), !.width = 5 * TrueVSize(v)]

\* CombinedOp::Update: every operator updated, then updateOffsets.
CombinedOp_Update(t) ==
    LET ops == [i \in Eqs |-> NLOperator_Update(t.op_[i], t.fesv)]
        offs == updateOffsets([i \in Eqs |-> ops[i].height])
    IN [t EXCEPT !.op_ = ops, !.offsets_ = offs,
                 !.op_height = offs[5], !.op_width = offs[5]]

\* DGTransportTDO::Update
TrUpdate ==
    /\ tr.pc = "ready"
    /\ LET t == [tr EXCEPT !.height = 5 * TrueVSize(tr.fesv),
                           !.pendingUpdate = FALSE]
       IN tr' = CombinedOp_Update(t)
    /\ UNCHANGED <<main, tdo, df, adv, phys>>

NextTransport ==
    \/ \E dt \in DtValues, y \in YVectors, k \in KVectors :
          ImplicitSolveBegin(dt, y, k)
    \/ NewtonResidual
    \/ NewtonStep
    \/ ImplicitSolveEnd
    \/ PrepareDataFields
    \/ TrMeshChange
    \/ TrUpdate

InitTransport ==
    /\ tr \in {TrInit(f, yl, kl) : f \in OpFlags,
                                   yl \in {"block", "separate"},
                                   kl \in {"block", "separate", "null"}}
    /\ main = Idle
    /\ tdo = Idle
    /\ df = Idle
    /\ adv = Idle
    /\ phys = Idle

SpecTransport == InitTransport /\ [][NextTransport]_vars

\* The coefficients SetTimeStep scales by -dt.
NegCoefs == {"negdtdSizdnnCoef_", "negdtdSizdniCoef_", "dtdChiGradTCoef_"}

\* Operator op carries time step dt everywhere.
HasTimeStep(op, dt) ==
    /\ op.dt_ = dt
    /\ \A j \in Eqs : op.y1Coef_[j] = Const(dt)
    /\ \A c \in DOMAIN op.coef :
          op.coef[c] = Const(IF c \in NegCoefs THEN -dt ELSE dt)

\* C8: from the moment ImplicitSolve(dt, y, k) hands over to the Newton
\* solver until the solver returns, each of the five equation operators has
\* dt_ = dt, beta = dt in all its y1Coef_, and dt (or -dt for
\* negdtdSizdnnCoef_, negdtdSizdniCoef_, dtdChiGradTCoef_) in every
\* dt-scaled coefficient it owns, whatever the earlier calls used.
C8_TimeStepPushed ==
    tr.pc \in {"newton", "stepped", "check"} =>
        \A i \in Eqs : HasTimeStep(tr.op_[i], tr.dt)

\* The Newton solve of a later call begins; all five equations are active
\* and the gradient left by the earlier call was built with another dt.
C8_Witness ==
    /\ tr.pc = "newton"
    /\ tr.op_flag = 31
    /\ tr.grad_.exists
    /\ tr.grad_.dt[0] # tr.dt
    /\ tr.op_[1].coef["negdtdSizdnnCoef_"] = Const(-tr.dt)

\* C11: ImplicitSolve restores the data arrays: when it returns, yGF_[i] and
\* kGF_[i] reference, for every field i, the data they referenced when the
\* call was entered.
C11_DataArraysRestored ==
    [][(tr.pc # "idle" /\ ImplicitSolveEnd) =>
          \A i \in Eqs : /\ tr'.yGF_[i] = tr.entry.yGF_[i]
                         /\ tr'.kGF_[i] = tr.entry.kGF_[i]]_vars

\* The operators were evaluated with neighbour data exchanged for the
\* targets the array had at that moment.
KExchanged(e) == e.exists => e.kNbr = e.kGF

YExchanged(e) == e.exists => e.yNbr = e.yGF

\* The step is a call of CombinedOp::Mult, UpdateGradient or
\* PrepareDataFields.
NestedCall == NewtonResidual \/ NewtonStep \/ PrepareDataFields

\* C12: whenever the equation operators are evaluated (Mult), assembled
\* (UpdateGradient) or projected (PrepareDataFields), each array retargeted
\* before has had ExchangeFaceNbrData called for its new targets; when
\* ImplicitSolve restores, yGF_ is exchanged again, and kGF_ is exchanged
\* again, there and in the three CombinedOp methods, exactly when the saved
\* pointer is not NULL.
C12_ExchangeAfterRetarget ==
    /\ [](tr.pc # "idle" =>
            /\ KExchanged(tr.resid) /\ YExchanged(tr.resid)
            /\ KExchanged(tr.grad_) /\ YExchanged(tr.grad_)
            /\ KExchanged(tr.fields))
    /\ [][(tr.pc # "idle" /\ ImplicitSolveEnd) =>
            /\ tr'.yNbr = tr'.yGF_
            /\ (tr.prev_k # NullPtr) <=> (tr'.kNbr = tr'.kGF_)]_vars
    /\ [][(tr.pc # "idle" /\ NestedCall) =>
            ((tr.kGF_[0] # NullPtr) <=> (tr'.kNbr = tr'.kGF_))]_vars

\* All three kinds of evaluation have happened with exchanged data, and the
\* last restore found a NULL saved pointer and did not exchange.
C12_Witness ==
    /\ tr.pc = "ready"
    /\ tr.resid.exists /\ tr.grad_.exists /\ tr.fields.exists
    /\ tr.resid.kNbr = tr.resid.kGF
    /\ tr.kGF_[0] = NullPtr
    /\ tr.kNbr # tr.kGF_
    /\ tr.yNbr = tr.yGF_

(***************************************************************************)
(* DiffusionTDO (miniapps/plasma/transport_solver.cpp)                     *)
(*                                                                         *)
(* df holds the operator.  M_ is named by the time step it was assembled   *)
(* with; amg_ and solver_ name the matrix they were set up with: "M_" (the *)
(* current one), "deleted" (one that delete M_ has freed since) or "NULL"  *)
(* (built from *M_ while M_ was NULL).  built is the set of objects the    *)
(* last ImplicitSolve constructed and used is what its solves ran on.      *)
(***************************************************************************)

\* Time steps passed to DiffusionTDO::ImplicitSolve: zero, small ones, and
\* pairs that differ by less than the tolerance of initSolver.
DfDtValues ==
    {0} \cup DtValues
        \cup {TolDenominator * d + e : d \in DtValues, e \in {0, 1}}

DgSigmaValues == {-1, 1}

DimValues == {1, 2, 3}

NullMatrix == [exists |-> FALSE, dt |-> 0]

NullAmg == [exists |-> FALSE, mat |-> "NULL"]

NullSolver == [exists |-> FALSE, kind |-> "none", mat |-> "NULL",
               prec |-> "NULL"]

NoUse == [mat |-> "none", prec |-> "none", n |-> 0]

AllBuilt == {"M_", "amg_", "solver_"}

\* DiffusionTDO::DiffusionTDO
DfInit(dg_sigma, dim) ==
    [ pc        |-> "live",
      status    |-> "ok",
      dim_      |-> dim,
      dg_sigma_ |-> dg_sigma,
      dt_       |-> 0,
      dtNuCoef_ |-> 0,
      M_        |-> NullMatrix,
      D_        |-> [exists |-> TRUE],
      amg_      |-> NullAmg,
      solver_   |-> NullSolver,
      built     |-> {},
      used      |-> NoUse,
      dt        |-> 0 ]

\* fabs(dt - dt_) > 1e-4 * dt
DfDtChanged(dt, dt_) == Abs(dt - dt_) * TolDenominator > dt

\* What *M_ denotes.
MatRef(d) == IF d.M_.exists THEN "M_" ELSE "NULL"

\* delete M_: whoever refers to the matrix now refers to a deleted one.
DeleteM(d) ==
    [d EXCEPT !.amg_.mat = IF @ = "M_" THEN "deleted" ELSE @,
              !.solver_.mat = IF @ = "M_" THEN "deleted" ELSE @]

\* initSolver, first block: a new M_ for the new time step.
initSolverM(d, dt) ==
    IF DfDtChanged(dt, d.dt_)
    THEN [DeleteM(d) EXCEPT !.dt_ = dt,
                            !.dtNuCoef_ = dt,
                            !.M_ = [exists |-> TRUE, dt |-> dt],
                            !.built = {"M_"}]
    ELSE [d EXCEPT !.built = {}]

initSolverAmg_OnlyIfNull(d, newM) ==
    IF ~d.amg_.exists
    THEN [d EXCEPT !.amg_ = [exists |-> TRUE, mat |-> MatRef(d)],
                   !.built = @ \cup {"amg_"}]
    ELSE d

\* initSolver, second block: if (amg_ == NULL || newM)
initSolverAmg(d, newM) ==
    IF ~d.amg_.exists \/ newM
    THEN [d EXCEPT !.amg_ = [exists |-> TRUE, mat |-> MatRef(d)],
                   !.solver_.prec = IF @ = "amg_" THEN "deleted" ELSE @,
                   !.built = @ \cup {"amg_"}]
    ELSE d

\* initSolver, third block: if (solver_ == NULL || newM)
initSolverSolver(d, newM) ==
    IF ~d.solver_.exists \/ newM
    THEN [d EXCEPT !.solver_ =
                       [exists |-> TRUE,
                        kind |-> IF d.dg_sigma_ = -1 THEN "HyprePCG"
                                                     ELSE "HypreGMRES",
                        mat |-> MatRef(d),
                        prec |-> "amg_"],
                   !.built = @ \cup {"solver_"}]
    ELSE d

initSolver(d, dt) ==
    LET newM == DfDtChanged(dt, d.dt_) IN
    initSolverSolver(initSolverAmg(initSolverM(d, dt), newM), newM)

\* The solves of ImplicitSolve, one per dimension, on solver_.
DfSolves(d) ==
    [d EXCEPT !.used = [mat |-> d.solver_.mat, prec |-> d.solver_.prec,
                        n |-> d.dim_]]

\* The solver or its preconditioner works on a matrix that is not there.
DfUndefined(d) ==
    \/ d.amg_.mat # "M_"
    \/ d.solver_.mat # "M_"
    \/ d.solver_.prec # "amg_"

\* DiffusionTDO::ImplicitSolve(dt, x, y).  Setting up or running a solver on
\* a null or deleted matrix is undefined: the call crashes or goes on.
DfImplicitSolve(dt) ==
    /\ df.pc = "live"
    /\ df.status = "ok"
    /\ LET s == [initSolver(df, dt) EXCEPT !.dt = dt] IN
       IF DfUndefined(s)
       THEN \/ df' = [s EXCEPT !.status = "crashed"]
            \/ df' = DfSolves(s)
       ELSE df' = DfSolves(s)
    /\ UNCHANGED <<main, tdo, tr, adv, phys>>

NextDiffusion == \E dt \in DfDtValues : DfImplicitSolve(dt)

InitDiffusion ==
    /\ df \in {DfInit(s, d) : s \in DgSigmaValues, d \in DimValues}
    /\ main = Idle
    /\ tdo = Idle
    /\ tr = Idle
    /\ adv = Idle
    /\ phys = Idle

SpecDiffusion == InitDiffusion /\ [][NextDiffusion]_vars

\* C9 as stated: once M_ has been built, an ImplicitSolve call whose dt
\* differs from the dt of the previous build rebuilds M_, amg_ and solver_;
\* a call with the dt of the previous build rebuilds nothing and leaves the
\* three unchanged; the solves never run on a deleted matrix.
C9_RebuiltOnEveryChange ==
    [][(df.pc # "idle" /\ NextDiffusion) =>
          /\ df.M_.exists =>
                IF df'.dt # df.dt_
                THEN df'.built = AllBuilt
                ELSE /\ df'.built = {}
                     /\ df'.M_ = df.M_
                     /\ df'.amg_ = df.amg_
                     /\ df'.solver_ = df.solver_
          /\ df'.used.mat # "deleted"]_vars

\* C9, amended: an ImplicitSolve call rebuilds M_ exactly when
\* |dt - dt_| > 1e-4 * dt, dt_ being the dt of the previous build (0 before
\* the first); a call that rebuilds M_ rebuilds amg_ and solver_ too, and
\* both are set up with the new M_, which the solves then run on; a call
\* that does not rebuild M_ while M_ exists rebuilds nothing and leaves the
\* three unchanged; a call that does not rebuild M_ while M_ is NULL (first
\* call with dt = 0) sets the solver up on a null matrix.
C9_RebuiltBeyondTolerance ==
    [][(df.pc # "idle" /\ NextDiffusion) =>
          /\ ("M_" \in df'.built) <=> DfDtChanged(df'.dt, df.dt_)
          /\ "M_" \in df'.built =>
                /\ df'.built = AllBuilt
                /\ df'.status = "ok"
                /\ df'.M_ = [exists |-> TRUE, dt |-> df'.dt]
                /\ df'.amg_.mat = "M_"
                /\ df'.solver_.mat = "M_"
                /\ df'.solver_.prec = "amg_"
                /\ df'.used.mat = "M_" /\ df'.used.prec = "amg_"
          /\ ("M_" \notin df'.built /\ df.M_.exists) =>
                /\ df'.built = {}
                /\ df'.status = "ok"
                /\ df'.M_ = df.M_
                /\ df'.amg_ = df.amg_
                /\ df'.solver_ = df.solver_
                /\ df'.used.mat = "M_" /\ df'.used.prec = "amg_"
          /\ ("M_" \notin df'.built /\ ~df.M_.exists) =>
                df'.solver_.mat = "NULL"]_vars

\* A call reused the three objects although its dt is not the dt they
\* were built with.
C9_Witness ==
    /\ df.status = "ok"
    /\ df.M_.exists
    /\ df.built = {}
    /\ df.dt # df.dt_
    /\ df.used.mat = "M_"

(***************************************************************************)
(* ex1lor, steps 3 and 4: the uniform refinement of the mesh               *)
(*                                                                         *)
(* In SpecRefine main stands right after the mesh was read (line 207) and  *)
(* holds the locals of step 4: the element count NE of the mesh, its       *)
(* dimension, ref_levels and the loop counter l.                           *)
(***************************************************************************)

\* Largest exponent tried when evaluating the logarithm.
MaxRefLevels == 15

\* 20000. in line 215
ElementLimit == 20000

\* mesh->GetNE() of the mesh file: small meshes, meshes at and around
\* 20000 / 2^k, and meshes larger than the limit.
InitialElementCounts ==
    {1, 2, 3, 78, 79, 624, 625, 626, 2500, 2501, 5000, 5001,
     10000, 10001, 20000, 20001, 40000, 160001}

Dimensions == {1, 2, 3}

RefLevels_RoundUp(NE, dim) ==
    CHOOSE r \in 0..MaxRefLevels : 2 ^ (dim * r) >= ElementLimit \div NE

\* (int)floor(log(20000. / NE) / log(2.) / dim): for NE <= 20000 the
\* largest r >= 0 with 2^(dim r) <= 20000 / NE, for NE > 20000 minus the
\* smallest r >= 1 with NE / 20000 <= 2^(dim r).
RefLevels(NE, dim) ==
    IF NE <= ElementLimit
    THEN CHOOSE r \in 0..(MaxRefLevels \div dim) :
            /\ 2 ^ (dim * r) <= ElementLimit \div NE
            /\ 2 ^ (dim * (r + 1)) > ElementLimit \div NE
    ELSE 0 - (CHOOSE r \in 1..(MaxRefLevels \div dim + 1) :
                 /\ (NE + ElementLimit - 1) \div ElementLimit <= 2 ^ (dim * r)
                 /\ (NE + ElementLimit - 1) \div ElementLimit
                       > 2 ^ (dim * (r - 1)))

\* new Mesh(mesh_file, 1, 1); dim = mesh->Dimension()
MeshRead(NE, dim) ==
    [ pc         |-> "mesh_read",
      NE0        |-> NE,
      NE         |-> NE,
      dim        |-> dim,
      ref_levels |-> 0,
      l          |-> 0 ]

\* int ref_levels = (int)floor(log(20000. / mesh->GetNE()) / log(2.) / dim)
ComputeRefLevels ==
    /\ main.pc = "mesh_read"
    /\ main' = [main EXCEPT !.pc = "refining",
                            !.ref_levels = RefLevels(main.NE, main.dim),
                            !.l = 0]
    /\ UNCHANGED <<tdo, tr, df, adv, phys>>

\* One pass of the loop: mesh->UniformRefinement() splits every element
\* into 2^dim.
UniformRefinement ==
    /\ main.pc = "refining"
    /\ main.l < main.ref_levels
    /\ main' = [main EXCEPT !.NE = @ * 2 ^ main.dim, !.l = @ + 1]
    /\ UNCHANGED <<tdo, tr, df, adv, phys>>

\* The loop condition l < ref_levels fails.
RefinementDone ==
    /\ main.pc = "refining"
    /\ ~(main.l < main.ref_levels)
    /\ main' = [main EXCEPT !.pc = "refined"]
    /\ UNCHANGED <<tdo, tr, df, adv, phys>>

NextRefine ==
    \/ ComputeRefLevels
    \/ UniformRefinement
    \/ RefinementDone

InitRefine ==
    /\ main \in {MeshRead(NE, dim) : NE \in InitialElementCounts,
                                     dim \in Dimensions}
    /\ tdo = Idle
    /\ tr = Idle
    /\ df = Idle
    /\ adv = Idle
    /\ phys = Idle

SpecRefine == InitRefine /\ [][NextRefine]_vars

\* C13 as stated: for every initial element count NE >= 1 and dimension in
\* {1,2,3} the refined mesh has at most 20,000 elements and one more
\* refinement would give more than 20,000.
C13_LargestRefinement ==
    main.pc = "refined" =>
        /\ main.NE <= ElementLimit
        /\ main.NE * 2 ^ main.dim > ElementLimit

\* C13, amended: for an initial element count 1 <= NE <= 20,000 the refined
\* mesh has at most 20,000 elements and one more refinement would give more
\* than 20,000; for NE > 20,000 ref_levels is negative, no refinement is
\* done and the mesh keeps its NE > 20,000 elements.
C13_LargestRefinementWithinLimit ==
    main.pc = "refined" =>
        IF main.NE0 <= ElementLimit
        THEN /\ main.ref_levels >= 0
             /\ main.l = main.ref_levels
             /\ main.NE <= ElementLimit
             /\ main.NE * 2 ^ main.dim > ElementLimit
        ELSE /\ main.ref_levels < 0
             /\ main.l = 0
             /\ main.NE = main.NE0

\* A mesh of 625 elements in one dimension was refined five times to
\* exactly 20,000 elements.
C13_Witness ==
    /\ main.pc = "refined"
    /\ main.NE0 = 625 /\ main.dim = 1
    /\ main.l = 5
    /\ main.NE = ElementLimit

(***************************************************************************)
(* ex1lor: further properties of the driver (SpecDriver)                   *)
(***************************************************************************)

\* C14: at normal exit every object main allocated with new has been
\* deleted exactly once (none is still live, none was deleted twice or
\* deleted without being allocated), and the collection borrowed from the
\* mesh nodes has not been deleted by main.
C14_AllFreedOnce ==
    RunCompleted =>
        \A n \in HeapNames : main.heap[n] \in {"deleted", "null", "borrowed"}

\* The preconditioner and the solve that a type other than "gko:bj" leads
\* to, whatever the Block-Jacobi options are.
ExpectedPrec(s) ==
    IF s = "none" THEN NoPrec
    ELSE [NoPrec EXCEPT !.type = ExpectedBranch(s),
                        !.matrix = "a_pc(fespace_lor)"]

ExpectedSolve(s) ==
    [kind |-> IF s = "none" THEN "cg" ELSE "pcg",
     prec |-> ExpectedPrec(s),
     matrix |-> "A",
     max_iter |-> "X.Size", rtol |-> "sqrt(1e-12)", atol |-> "sqrt(0)"]

\* C15: for the types "gko:ilu", "mfem:gs" and "none" the preconditioner
\* built and the solver run, with its iteration limit and tolerances, are
\* determined by the type alone: they are the same for every value of the
\* storage-optimization mode, the accuracy and the maximum block size.
C15_BlockJacobiOptionsUnused ==
    (Solved /\ main.args.pc_type \in ValidPCTypes \ {"gko:bj"}) =>
        /\ main.M = ExpectedPrec(main.args.pc_type)
        /\ main.solve = ExpectedSolve(main.args.pc_type)

\* The ILU solve has run although all three Block-Jacobi options were given
\* values other than their defaults.
C15_Witness ==
    /\ Solved
    /\ main.args.pc_type = "gko:ilu"
    /\ main.args.pc_storage_opt # "auto"
    /\ main.args.pc_acc # "1e-1"
    /\ main.args.pc_max_bs # 32
    /\ main.solve.kind = "pcg"

\* C16: the solution is sent to the GLVis socket if and only if the
\* visualization flag is true after option parsing, and only after
\* RecoverFEMSolution.
C16_SocketIffVisualization ==
    /\ main.pc # "idle" =>
          (main.socket =>
              /\ main.args.visualization
              /\ Events(main.log, {"RecoverFEMSolution", "socket"})
                    = <<"RecoverFEMSolution", "socket">>)
    /\ RunCompleted => (main.socket <=> main.args.visualization)

\* A run with visualization on has completed and sent the solution.
C16_Witness ==
    /\ RunCompleted
    /\ main.args.visualization
    /\ main.socket

\* C17: when args.Good() is false the run prints the usage and returns 1;
\* the preconditioner type is not interpreted, and no executor, mesh or
\* other object is created and nothing is solved.
C17_ParseFailureExits ==
    (main.pc # "idle" /\ ~main.args.good) =>
        /\ main.pc \in {"parse", "exit"}
        /\ main.pc = "exit" => main.exit = 1 /\ main.log = <<"PrintUsage">>
        /\ main.pc_choice = "UNSET"
        /\ main.executor = "none"
        /\ main.device = "none"
        /\ main.heap = NullHeap
        /\ main.solve = NoSolve
        /\ ~main.socket

\* A run whose command line failed to parse (and named an unknown
\* preconditioner type) has returned 1.
C17_Witness ==
    /\ main.pc = "exit"
    /\ ~main.args.good
    /\ main.exit = 1
    /\ main.args.pc_type \notin ValidPCTypes

\* The blocks an evaluation wrote are consecutive: the first starts at 0,
\* each starts where the one before ends, the last ends at the size of y.
BlocksPartition(e) ==
    e.exists =>
        /\ e.out[0].lo = 0
        /\ \A i \in Eqs : e.out[i].lo <= e.out[i].hi
        /\ \A i \in 0..3 : e.out[i].hi = e.out[i + 1].lo
        /\ e.out[4].hi = e.size

\* C18: after construction and after every Update, offsets_[0] = 0,
\* offsets_[i+1] - offsets_[i] is the height of equation operator i,
\* offsets_ is non-decreasing and the height and width of CombinedOp equal
\* offsets_[5]; CombinedOp::Mult writes the result of operator i into
\* y[offsets_[i] .. offsets_[i+1]) only, so that the five blocks are
\* disjoint and cover y.
C18_BlockOffsets ==
    tr.pc # "idle" =>
        /\ tr.offsets_[0] = 0
        /\ \A i \in Eqs :
              /\ tr.offsets_[i + 1] - tr.offsets_[i] = tr.op_[i].height
              /\ tr.offsets_[i] <= tr.offsets_[i + 1]
        /\ tr.op_height = tr.offsets_[5]
        /\ tr.op_width = tr.offsets_[5]
        /\ ~tr.pendingUpdate =>
              \A i \in Eqs : tr.op_[i].height = TrueVSize(tr.fesv)
        /\ BlocksPartition(tr.resid)

\* Update has run after a mesh change and Mult has been called since.
C18_Witness ==
    /\ tr.pc = "check"
    /\ tr.fesv = 1
    /\ ~tr.pendingUpdate
    /\ tr.offsets_[5] = 5 * TrueVSize(1)
    /\ tr.resid.exists
    /\ tr.resid.size = tr.offsets_[5]
    /\ tr.resid.out[4] = [lo |-> 4 * TrueVSize(1), hi |-> 5 * TrueVSize(1)]

\* The array references vector x block by block.
References(gf, x, offsets) ==
    \A i \in Eqs : gf[i] = PtrAdd(VectorData(x), offsets[i])

\* During the evaluation kGF_[i] referenced the argument x at the start of
\* block i.
ReadArgument(e) ==
    e.exists => \A i \in Eqs : e.kGF[i] = PtrAdd(VectorData(e.x), e.out[i].lo)

\* C19: while the Newton solve of ImplicitSolve(dt, y, k) runs, yGF_[i]
\* references y at offsets_[i]; during each CombinedOp::Mult(x, .) and
\* UpdateGradient(x) of the solve kGF_[i] references x at offsets_[i] (and
\* yGF_ still y); when such a call returns, kGF_[i] references again what it
\* referenced when the call was entered.
C19_NewtonReadsArguments ==
    /\ [](tr.pc \in {"newton", "stepped", "check"} =>
            /\ References(tr.yGF_, tr.y, tr.offsets_)
            /\ tr.pc # "newton" =>
                  /\ ReadArgument(tr.resid)
                  /\ References(tr.resid.yGF, tr.y, tr.offsets_)
            /\ tr.pc = "stepped" =>
                  /\ ReadArgument(tr.grad_)
                  /\ References(tr.grad_.yGF, tr.y, tr.offsets_))
    /\ [][(tr.pc # "idle" /\ (NewtonResidual \/ NewtonStep)) =>
            tr'.kGF_ = tr.kGF_]_vars

\* A Newton step has assembled the gradient at k after the residual was
\* evaluated there, for grid functions the caller allocated separately.
C19_Witness ==
    /\ tr.pc = "stepped"
    /\ tr.ylayout = "separate" /\ tr.klayout = "null"
    /\ tr.resid.exists /\ tr.resid.x = tr.k
    /\ tr.grad_.exists /\ tr.grad_.x = tr.k
    /\ tr.kGF_[4] = PtrAdd(VectorData(tr.k), tr.offsets_[4])
    /\ tr.yGF_[4] = PtrAdd(VectorData(tr.y), tr.offsets_[4])

(***************************************************************************)
(* AdvectionTDO (transport_solver.cpp, 3398 to 3587).                      *)
(*                                                                         *)
(* Doubles are records: a number, an infinity or a NaN.  The states used   *)
(* below have integer components chosen so that every quotient and every   *)
(* square root the code takes is exact; the sign of a zero is not kept.    *)
(***************************************************************************)
MaxNodes == 2

Num(n) == [k |-> "num", v |-> n]

PosInf == [k |-> "inf", v |-> 1]

NegInf == [k |-> "inf", v |-> -1]

NaN == [k |-> "nan", v |-> 0]

Sign(n) == IF n < 0 THEN -1 ELSE 1

FNeg(a) ==
    CASE a.k = "nan" -> NaN
      [] a.k = "inf" -> [k |-> "inf", v |-> -a.v]
      [] OTHER       -> Num(-a.v)

\* a + b
FAdd(a, b) ==
    CASE a.k = "nan" \/ b.k = "nan"   -> NaN
      [] a.k = "inf" /\ b.k = "inf"   -> IF a.v = b.v THEN a ELSE NaN
      [] a.k = "inf"                  -> a
      [] b.k = "inf"                  -> b
      [] OTHER                        -> Num(a.v + b.v)

\* a - b
FSub(a, b) == FAdd(a, FNeg(b))

\* a * b
FMul(a, b) ==
    CASE a.k = "nan" \/ b.k = "nan"   -> NaN
      [] a.k = "inf" \/ b.k = "inf"   ->
            IF a.v = 0 \/ b.v = 0 THEN NaN
            ELSE [k |-> "inf", v |-> Sign(a.v) * Sign(b.v)]
      [] OTHER                        -> Num(a.v * b.v)

\* a / b
FDiv(a, b) ==
    CASE a.k = "nan" \/ b.k = "nan"   -> NaN
      [] a.k = "inf" /\ b.k = "inf"   -> NaN
      [] a.k = "inf"                  -> [k |-> "inf", v |-> a.v * Sign(b.v)]
      [] b.k = "inf"                  -> Num(0)
      [] b.v = 0                      ->
            IF a.v = 0 THEN NaN ELSE [k |-> "inf", v |-> Sign(a.v)]
      [] OTHER                        ->
            Num(Sign(a.v) * Sign(b.v)
                * ((Sign(a.v) * a.v) \div (Sign(b.v) * b.v)))

\* sqrt(a)
FSqrt(a) ==
    CASE a.k = "nan"  -> NaN
      [] a.k = "inf"  -> IF a.v = 1 THEN PosInf ELSE NaN
      [] a.v < 0      -> NaN
      [] OTHER        -> Num(CHOOSE r \in 0..a.v : r * r = a.v)

\* a < b: false as soon as one side is a NaN
FLess(a, b) ==
    CASE a.k = "nan" \/ b.k = "nan"   -> FALSE
      [] a.k = "inf" /\ b.k = "inf"   -> a.v < b.v
      [] a.k = "inf"                  -> a.v = -1
      [] b.k = "inf"                  -> b.v = 1
      [] OTHER                        -> a.v < b.v

\* a > b
FGreater(a, b) == FLess(b, a)

\* a <= b
FLessEq(a, b) == FLess(a, b) \/ (a.k # "nan" /\ a = b)

\* The loop  for (d < dim) den_vel2 += den_vel(d) * den_vel(d)
RECURSIVE SumSquares(_)
SumSquares(den_vel) ==
    IF den_vel = << >> THEN Num(0)
    ELSE FAdd(SumSquares(SubSeq(den_vel, 1, Len(den_vel) - 1)),
              FMul(Num(den_vel[Len(den_vel)]), Num(den_vel[Len(den_vel)])))

\* den_vel2 after  den_vel2 /= den
DenVel2(state) == FDiv(SumSquares(state.den_vel), Num(state.den))

ComputePressure(state, specific_heat_ratio) ==
    FMul(Num(specific_heat_ratio - 1),
         FSub(Num(state.den_energy), FDiv(DenVel2(state), Num(2))))

StateIsPhysical(state, specific_heat_ratio) ==
    IF state.den < 0 THEN FALSE
    ELSE IF state.den_energy <= 0 THEN FALSE
    ELSE IF FLessEq(ComputePressure(state, specific_heat_ratio), Num(0))
         THEN FALSE
    ELSE TRUE

ComputeMaxCharSpeed(state, specific_heat_ratio) ==
    LET den   == Num(state.den)
        pres  == ComputePressure(state, specific_heat_ratio)
        sound == FSqrt(FDiv(FMul(Num(specific_heat_ratio), pres), den))
        vel   == FSqrt(FDiv(DenVel2(state), den))
    IN  FAdd(vel, sound)

State(den, den_vel, den_energy) ==
    [den |-> den, den_vel |-> den_vel, den_energy |-> den_energy]

\* Node states in one space dimension: speeds 1, 2 and 4, a zero speed with
\* zero energy, negative pressure, zero density, negative density.
NodeStates ==
    { State(2, <<0>>, 1), State(2, <<2>>, 2), State(2, <<4>>, 8),
      State(2, <<0>>, 0), State(2, <<4>>, 2), State(0, <<0>>, 1),
      State(-2, <<0>>, -1) }

HeatRatios == {2}

\* What the member may hold before the first Mult: the constructor does not
\* initialize it.
IndeterminateSpeeds == {Num(9), PosInf, NaN}

NodeVectors == UNION {[1..n -> NodeStates] : n \in 0..MaxNodes}

AdvInit(ratio, debug, speed) ==
    [pc                   |-> "ready",
     debug                |-> debug,
     specific_heat_ratio_ |-> ratio,
     max_char_speed_      |-> speed,
     returned             |-> FALSE,
     x                    |-> << >>,
     before               |-> speed]

\* Mult, step 0, without the reset
ResetSpeed_Skipped(a) == a

\* Mult, step 0
ResetSpeed(a) == [a EXCEPT !.max_char_speed_ = Num(0)]

\* GetFlux: the nodes i = from .. dof - 1 in turn.  In a build with
\* MFEM_ASSERT enabled ComputeFlux aborts at a state StateIsPhysical rejects.
RECURSIVE GetFlux(_, _, _)
GetFlux(a, x, from) ==
    IF from > Len(x) THEN a
    ELSE IF a.debug /\ ~StateIsPhysical(x[from], a.specific_heat_ratio_)
    THEN [a EXCEPT !.pc = "aborted"]
    ELSE LET mcs == ComputeMaxCharSpeed(x[from], a.specific_heat_ratio_)
         IN  GetFlux(IF FGreater(mcs, a.max_char_speed_)
                     THEN [a EXCEPT !.max_char_speed_ = mcs]
                     ELSE a,
                     x, from + 1)

\* AdvectionTDO::Mult(x, y); A_ keeps a wave speed of its own
AdvMult(x) ==
    /\ adv.pc = "ready"
    /\ LET entered == [adv EXCEPT !.x = x,
                                  !.before = adv.max_char_speed_]
           left    == GetFlux(ResetSpeed(entered), x, 1)
       IN  adv' = [left EXCEPT !.returned = (left.pc = "ready")]
    /\ UNCHANGED <<main, tdo, tr, df, phys>>

NextAdvection ==
    \E x \in NodeVectors : AdvMult(x)

InitAdvection ==
    /\ adv \in {AdvInit(r, d, s) : r \in HeatRatios, d \in BOOLEAN,
                                   s \in IndeterminateSpeeds}
    /\ main = Idle
    /\ tdo = Idle
    /\ tr = Idle
    /\ df = Idle
    /\ phys = Idle

SpecAdvection == InitAdvection /\ [][NextAdvection]_vars

(***************************************************************************)
(* AdvectionTDO: the wave speed Mult leaves behind.                        *)
(***************************************************************************)
\* The characteristic speeds computed at the nodes of the last Mult
SpeedsComputed ==
    {ComputeMaxCharSpeed(adv.x[i], adv.specific_heat_ratio_) :
        i \in 1..Len(adv.x)}

IsMaximum(m, S) == m \in S /\ \A s \in S : FLessEq(s, m)

PhysRatios == {2, 3}

PhysStates ==
    {State(den, den_vel, den_energy) :
        den \in {-2, 0, 2},
        den_vel \in {<<0>>, <<2>>, <<4>>},
        den_energy \in {-1, 0, 1, 2, 5, 8}}

PhysInit(state, specific_heat_ratio) ==
    [pc                  |-> "call",
     state               |-> state,
     specific_heat_ratio |-> specific_heat_ratio,
     result              |-> FALSE]

\* bool StateIsPhysical(state, dim, specific_heat_ratio), called on its own
StateIsPhysicalCall ==
    /\ phys.pc = "call"
    /\ phys' = [phys EXCEPT
                  !.pc = "returned",
                  !.result = StateIsPhysical(phys.state,
                                             phys.specific_heat_ratio)]
    /\ UNCHANGED <<main, tdo, tr, df, adv>>

NextPhysical == StateIsPhysicalCall

InitPhysical ==
    /\ phys \in {PhysInit(s, r) : s \in PhysStates, r \in PhysRatios}
    /\ main = Idle
    /\ tdo = Idle
    /\ tr = Idle
    /\ df = Idle
    /\ adv = Idle

SpecPhysical == InitPhysical /\ [][NextPhysical]_vars

(***************************************************************************)
(* StateIsPhysical: what it accepts.                                       *)
(***************************************************************************)
\* The momentum squared, in exact arithmetic
Momentum2(state) ==
    LET sq == SumSquares(state.den_vel) IN sq.v

\* Density > 0, energy density > 0 and
\* (gamma - 1)(energy - momentum^2 / (2 density)) > 0, for gamma > 1
StrictlyPhysical(state, gamma) ==
    /\ state.den > 0
    /\ state.den_energy > 0
    /\ (gamma - 1) * (2 * state.den * state.den_energy - Momentum2(state)) > 0

\* C21: for every state and specific heat ratio greater than 1,
\* StateIsPhysical returns true if and only if the density, the energy
\* density and the pressure are strictly positive; a state with zero
\* density is not reported as physical.
C21_PhysicalIffStrictlyPositive ==
    phys.pc = "returned" =>
        /\ phys.result <=>
               StrictlyPhysical(phys.state, phys.specific_heat_ratio)
        /\ phys.state.den = 0 => ~phys.result

(***************************************************************************)
(* DGAdvectionDiffusionTDO: the lazily built forms against a fresh         *)
(* operator.                                                               *)
(***************************************************************************)
LazyForms == {"a_", "b_", "s_", "k_", "q_exp_", "q_imp_"}

CoefMembers == {"VCoef_", "dCoef_", "DCoef_", "SCoef_", "dbcCoef_",
                "nbcCoef_", "negVCoef_", "dtNegVCoef_", "dtdCoef_",
                "dtDCoef_"}

\* A freshly constructed operator of the same mode, given the current
\* coefficients of t by the setters, after a single SetTime
FreshAfterSetTime(t) ==
    LET fresh == TdoInit(t.imex)
        given == [f \in DOMAIN fresh |->
                    IF f \in CoefMembers THEN t[f] ELSE fresh[f]]
    IN  SetTimeBody(given)

\* Only the setters and SetTime have been called so far
OnlySettersAndSetTime(t) ==
    /\ t.status = "ok"
    /\ t.fesv = 0 /\ ~t.pendingUpdate
    /\ t.dt_ = -1
    /\ t.out = "untouched"

SameForm(f, g) == f.exists = g.exists /\ f.integ = g.integ

\* C22: after a sequence of setter and SetTime calls that ends with SetTime,
\* each of a_, b_, s_, k_, q_exp_ and q_imp_ exists exactly when, and holds
\* exactly the integrators and coefficient objects that, a freshly
\* constructed operator given the same current coefficients and a single
\* SetTime would have.
C22_FormsNeverStale ==
    [][(tdo.pc # "idle" /\ OnlySettersAndSetTime(tdo) /\ TdoSetTime) =>
          \A f \in LazyForms :
              SameForm(tdo'[f], FreshAfterSetTime(tdo')[f])]_vars

\* The same for the four bilinear forms alone
BilinearFormsNeverStale ==
    [][(tdo.pc # "idle" /\ OnlySettersAndSetTime(tdo) /\ TdoSetTime) =>
          \A f \in {"a_", "b_", "s_", "k_"} :
              SameForm(tdo'[f], FreshAfterSetTime(tdo')[f])]_vars

====
